---- MODULE Spec2Model ----
(***************************************************************************)
(* Cyclone: the webhook event filter, the pull-request size gate, the      *)
(* parser of the model's reply and the per-event review pipeline.          *)
(*                                                                         *)
(* A text is a sequence of one-character strings, so that substring        *)
(* search, splitting and trimming are computed and not assumed.  A         *)
(* character outside ASCII is one element named by its code point          *)
(* ("U+1F32A"); a fixed stretch of a message template that is only ever    *)
(* concatenated is one element named after the template ("<...>").         *)
(***************************************************************************)
EXTENDS Integers, Sequences, FiniteSets, TLC

VARIABLES
    call,     \* pure-function harness: the function applied and its input
    ret,      \* pure-function harness: what the function returned
    events,   \* webhook deliveries handled so far, in arrival order
    units,    \* per event: the goroutine running ProcessPullRequest
    posted,   \* what the hosting platform accepted, in order
    crashed   \* the process died of an unrecovered panic

vars == <<call, ret, events, units, posted, crashed>>

(***************************************************************************)
(* Bounds of the model.                                                    *)
(***************************************************************************)
MaxFrags == 3      \* PR_COMMENT: markers in one generated reply
MaxDigits == 2     \* digits of a generated line-number text
Margin == 1        \* how far around each size threshold the inputs reach
MaxEvents == 2     \* webhook deliveries in one run
MaxRepos == 2      \* repository entries of one generated organization

(***************************************************************************)
(* Go's strings package on texts.  Positions are 0-based as in Go.         *)
(***************************************************************************)
Min(S) == CHOOSE m \in S : \A n \in S : m <= n
Max(S) == CHOOSE m \in S : \A n \in S : m >= n

\* the positions at which sub occurs in s
Occurrences(s, sub) ==
    {i \in 0..(Len(s) - Len(sub)) : SubSeq(s, i + 1, i + Len(sub)) = sub}

\* strings.Index: the first occurrence, or -1
Index(s, sub) ==
    IF Occurrences(s, sub) = {} THEN -1 ELSE Min(Occurrences(s, sub))

\* strings.LastIndex: the last occurrence, or -1
LastIndex(s, sub) ==
    IF Occurrences(s, sub) = {} THEN -1 ELSE Max(Occurrences(s, sub))

\* s[lo:hi]; Go panics unless 0 <= lo <= hi <= len(s)
SliceOK(s, lo, hi) == 0 <= lo /\ lo <= hi /\ hi <= Len(s)
Slice(s, lo, hi) == SubSeq(s, lo + 1, hi)

Whitespace == {" ", "\t", "\n", "\r"}

RECURSIVE TrimLeft(_)
TrimLeft(s) ==
    IF s # <<>> /\ Head(s) \in Whitespace THEN TrimLeft(Tail(s)) ELSE s

RECURSIVE TrimRight(_)
TrimRight(s) ==
    IF s # <<>> /\ s[Len(s)] \in Whitespace
    THEN TrimRight(SubSeq(s, 1, Len(s) - 1))
    ELSE s

\* strings.TrimSpace
TrimSpace(s) == TrimRight(TrimLeft(s))

\* strings.SplitN(s, sep, n) for n >= 1: at most n parts, the last one the
\* unsplit remainder
RECURSIVE SplitN(_, _, _)
SplitN(s, sep, n) ==
    LET i == Index(s, sep)
    IN  IF n <= 1 \/ i = -1
        THEN <<s>>
        ELSE <<Slice(s, 0, i)>> \o SplitN(Slice(s, i + Len(sep), Len(s)), sep, n - 1)

\* strings.Split(s, sep): every part
Split(s, sep) == SplitN(s, sep, Len(s) + 1)

Digits == {"0", "1", "2", "3", "4", "5", "6", "7", "8", "9"}

DigitVal(c) ==
    CASE c = "0" -> 0 [] c = "1" -> 1 [] c = "2" -> 2 [] c = "3" -> 3
      [] c = "4" -> 4 [] c = "5" -> 5 [] c = "6" -> 6 [] c = "7" -> 7
      [] c = "8" -> 8 [] c = "9" -> 9

RECURSIVE DecimalValue(_)
DecimalValue(ds) ==
    IF ds = <<>> THEN 0
    ELSE 10 * DecimalValue(SubSeq(ds, 1, Len(ds) - 1)) + DigitVal(ds[Len(ds)])

\* strconv.Atoi: an optional sign and one or more decimal digits.  The
\* generated line texts stay far below the width of int, so the range
\* error of Atoi is not reached.
Atoi(s) ==
    LET signed == s # <<>> /\ Head(s) \in {"+", "-"}
        ds == IF signed THEN Tail(s) ELSE s
    IN  IF ds = <<>> \/ \E i \in 1..Len(ds) : ds[i] \notin Digits
        THEN [err |-> TRUE, val |-> 0]
        ELSE [err |-> FALSE,
              val |-> IF Head(s) = "-" THEN 0 - DecimalValue(ds) ELSE DecimalValue(ds)]

\* fmt's %d of a non-negative or negative int
RECURSIVE Itoa(_)
Itoa(n) ==
    IF n < 0 THEN <<"-">> \o Itoa(0 - n)
    ELSE IF n < 10 THEN <<CHOOSE c \in Digits : DigitVal(c) = n>>
    ELSE Itoa(n \div 10) \o Itoa(n % 10)

(***************************************************************************)
(* The reply protocol: markers, delimiter and the fixed texts of the       *)
(* composed summary.                                                       *)
(***************************************************************************)
SummaryMarker == <<"S", "U", "M", "M", "A", "R", "Y", ":">>
PoemMarker == <<"P", "O", "E", "M", ":">>
CommentMarker == <<"P", "R", "_", "C", "O", "M", "M", "E", "N", "T", ":">>
Delim == <<"$", "$">>
Colon == <<":">>

BrandingHeader == <<"#", "#", " ", "U+1F32A", "U+FE0F", " ", "C", "y", "c", "l", "o", "n", "e", " ", "A", "I", " ", "C", "o", "d", "e", " ", "R", "e", "v", "i", "e", "w", "\n", "\n">>
PoemSeparator ==
    <<"\n", "\n", "-", "-", "-", "\n", "\n", "*", "*", "A", "n", "d", " ", "n", "o", "w", ",", " ", "a", " ", "l", "i", "t", "t", "l", "e", " ", "p", "o", "e", "m", " ", "a", "b", "o", "u", "t", " ", "y", "o", "u", "r", " ", "c", "h", "a", "n", "g", "e", "s", " ", "U+1F32A", "U+FE0F", "U+2728", "*", "*", "\n">>
BodyJoin == <<"\n", "\n">>

NilComment == [kind |-> "nil"]
PanicComment == [kind |-> "panic"]

(***************************************************************************)
(* The parser of the model's reply.                                        *)
(***************************************************************************)

\* faulty variant of extractSection: closes at the last "$$" of the text
extractSectionToLastDelim(text, sectionHeader) ==
    LET startIndex == Index(text, sectionHeader)
    IN  IF startIndex = -1 THEN <<>>
        ELSE
        LET rel1 == Index(Slice(text, startIndex, Len(text)), Delim)
        IN  IF rel1 = -1 THEN <<>>
            ELSE
            LET delimStart == rel1 + startIndex + 2
                rel2 == LastIndex(Slice(text, delimStart, Len(text)), Delim)
            IN  IF rel2 = -1 THEN <<>>
                ELSE TrimSpace(Slice(text, delimStart, rel2 + delimStart))

\* extractSection: the trimmed text between the first "$$" at or after the
\* first sectionHeader and the next "$$"; "" when one of the three is absent
extractSection(text, sectionHeader) ==
    LET startIndex == Index(text, sectionHeader)
    IN  IF startIndex = -1 THEN <<>>
        ELSE
        LET rel1 == Index(Slice(text, startIndex, Len(text)), Delim)
        IN  IF rel1 = -1 THEN <<>>
            ELSE
            LET delimStart == rel1 + startIndex + 2
                rel2 == Index(Slice(text, delimStart, Len(text)), Delim)
            IN  IF rel2 = -1 THEN <<>>
                ELSE TrimSpace(Slice(text, delimStart, rel2 + delimStart))

\* whether one of extractSection's three slice expressions is out of range
extractSectionPanics(text, sectionHeader) ==
    LET startIndex == Index(text, sectionHeader)
    IN  /\ startIndex # -1
        /\ LET rel1 == Index(Slice(text, startIndex, Len(text)), Delim)
           IN  /\ rel1 # -1
               /\ LET delimStart == rel1 + startIndex + 2
                  IN  \/ ~SliceOK(text, delimStart, Len(text))
                      \/ LET rel2 == Index(Slice(text, delimStart, Len(text)), Delim)
                         IN  /\ rel2 # -1
                             /\ ~SliceOK(text, delimStart, rel2 + delimStart)

\* faulty variant of HeaderParts: splits at every colon
HeaderPartsSplitAll(header) == Split(header, Colon)

\* strings.SplitN(header, ":", 3)
HeaderParts(header) == SplitN(header, Colon, 3)

\* fmt.Sprintf("%s\n\n%s", categoryPart, content)
CommentBody(categoryPart, content) == categoryPart \o BodyJoin \o content

\* faulty variant of CommentOf: a line field that is no number becomes line 0
CommentOfLineZero(header, content) ==
    LET parts == HeaderParts(header)
    IN  IF Len(parts) < 3 THEN NilComment
        ELSE
        LET file == TrimSpace(parts[1])
            lineNumStr == TrimSpace(parts[2])
            categoryPart == TrimSpace(parts[3])
            lineNum == Atoi(lineNumStr)
        IN  [kind |-> "comment",
             Path |-> file,
             Line |-> IF lineNum.err THEN 0 ELSE lineNum.val,
             Side |-> "RIGHT",
             Body |-> CommentBody(categoryPart, content)]

\* the header checks and the comment built from header and content
CommentOf(header, content) ==
    LET parts == HeaderParts(header)
    IN  IF Len(parts) < 3 THEN NilComment
        ELSE
        LET file == TrimSpace(parts[1])
            lineNumStr == TrimSpace(parts[2])
            categoryPart == TrimSpace(parts[3])
            lineNum == Atoi(lineNumStr)
        IN  IF lineNum.err THEN NilComment
            ELSE [kind |-> "comment",
                  Path |-> file,
                  Line |-> lineNum.val,
                  Side |-> "RIGHT",
                  Body |-> CommentBody(categoryPart, content)]

\* parsePRCommentBlock: nil, a comment, or the run-time panic of the slice
\* block[startDelim+2 : endDelim] when the first and the last "$$" overlap
parsePRCommentBlock(block) ==
    LET startDelim == Index(block, Delim)
        endDelim == LastIndex(block, Delim)
    IN  IF startDelim = -1 THEN NilComment
        ELSE IF endDelim = -1 \/ endDelim <= startDelim THEN NilComment
        ELSE IF ~SliceOK(block, startDelim + 2, endDelim) THEN PanicComment
        ELSE CommentOf(TrimSpace(Slice(block, 0, startDelim)),
                       TrimSpace(Slice(block, startDelim + 2, endDelim)))

\* the ReviewComment of a parsed block
AsReviewComment(c) ==
    [Path |-> c.Path, Line |-> c.Line, Body |-> c.Body, Side |-> c.Side]

\* faulty variant of CollectComments: leaves the loop at the first nil block
RECURSIVE CollectCommentsStopAtNil(_)
CollectCommentsStopAtNil(blocks) ==
    IF blocks = <<>> THEN <<>>
    ELSE LET comment == parsePRCommentBlock(Head(blocks))
         IN  IF comment.kind = "comment"
             THEN <<AsReviewComment(comment)>> \o CollectCommentsStopAtNil(Tail(blocks))
             ELSE <<>>

\* the loop over parts[1:]: append every non-nil comment, in order
RECURSIVE CollectComments(_)
CollectComments(blocks) ==
    IF blocks = <<>> THEN <<>>
    ELSE LET comment == parsePRCommentBlock(Head(blocks))
         IN  (IF comment.kind = "comment" THEN <<AsReviewComment(comment)>> ELSE <<>>)
             \o CollectComments(Tail(blocks))

\* the fragments after each PR_COMMENT: marker
CommentBlocks(claudeText) == Tail(Split(claudeText, CommentMarker))

\* faulty variant of ComposeSummary: appends the poem section unconditionally
ComposeSummaryAlwaysPoem(summary, poem) ==
    BrandingHeader \o summary \o PoemSeparator \o poem

\* finalSummary: branding, summary and, when there is a poem, the poem
ComposeSummary(summary, poem) ==
    BrandingHeader \o summary \o (IF poem # <<>> THEN PoemSeparator \o poem ELSE <<>>)

\* parseClaudeResponse: the ReviewResult, or the panic of one of its blocks
\* (the loop stops at the first block that panics)
parseClaudeResponse(claudeText) ==
    LET blocks == CommentBlocks(claudeText)
    IN  IF \/ extractSectionPanics(claudeText, SummaryMarker)
           \/ extractSectionPanics(claudeText, PoemMarker)
           \/ \E i \in 1..Len(blocks) : parsePRCommentBlock(blocks[i]).kind = "panic"
        THEN [panicked |-> TRUE]
        ELSE [panicked |-> FALSE,
              Summary |-> ComposeSummary(extractSection(claudeText, SummaryMarker),
                                         extractSection(claudeText, PoemMarker)),
              Comments |-> CollectComments(blocks)]

(***************************************************************************)
(* The event filter.                                                       *)
(***************************************************************************)

\* faulty variant of shouldTriggerReview: reviews every push as well
shouldTriggerReviewOnSynchronize(action, draft) ==
    IF draft THEN FALSE
    ELSE action \in {"opened", "ready_for_review", "synchronize"}

\* shouldTriggerReview(action, pr), with draft = pr.GetDraft()
shouldTriggerReview(action, draft) ==
    IF draft THEN FALSE
    ELSE CASE action = "opened" -> TRUE
           [] action = "ready_for_review" -> TRUE
           [] action = "synchronize" -> FALSE
           [] OTHER -> FALSE

(***************************************************************************)
(* The size gate.                                                          *)
(***************************************************************************)
MAX_FILES_FOR_REVIEW == 25
MAX_ADDITIONS_FOR_REVIEW == 800
MAX_TOTAL_CHANGES == 1200
WARN_FILES_THRESHOLD == 20
WARN_ADDITIONS_THRESHOLD == 400

\* the skip message of the files limit
FilesSkipMessage(files) ==
    <<"<## Cyclone Notice / **PR Too Large for Automated Review**>">>
    \o <<"T", "h", "i", "s", " ", "P", "R", " ", "m", "o", "d", "i", "f", "i", "e", "s", " ", "*", "*">> \o Itoa(files)
    \o <<" ", "f", "i", "l", "e", "s", "*", "*", ",", " ", "w", "h", "i", "c", "h", " ", "e", "x", "c", "e", "e", "d", "s", " ", "o", "u", "r", " ", "l", "i", "m", "i", "t", " ", "o", "f", " ">> \o Itoa(MAX_FILES_FOR_REVIEW)
    \o <<" ", "f", "i", "l", "e", "s", " ", "f", "o", "r", " ", "a", "u", "t", "o", "m", "a", "t", "e", "d", " ", "r", "e", "v", "i", "e", "w", ".">>
    \o <<"<Why we skip large PRs / Suggestions / Happy to review once split>">>

\* the skip message of the additions limit
AdditionsSkipMessage(additions) ==
    <<"<## Cyclone Notice / **PR Too Large for Automated Review**>">>
    \o <<"T", "h", "i", "s", " ", "P", "R", " ", "a", "d", "d", "s", " ", "*", "*">> \o Itoa(additions)
    \o <<" ", "l", "i", "n", "e", "s", "*", "*", ",", " ", "w", "h", "i", "c", "h", " ", "e", "x", "c", "e", "e", "d", "s", " ", "o", "u", "r", " ", "l", "i", "m", "i", "t", " ", "o", "f", " ">> \o Itoa(MAX_ADDITIONS_FOR_REVIEW)
    \o <<" ", "l", "i", "n", "e", "s", " ", "f", "o", "r", " ", "a", "u", "t", "o", "m", "a", "t", "e", "d", " ", "r", "e", "v", "i", "e", "w", ".">>
    \o <<"<Large PRs are challenging because / Best Practices / Ready to provide>">>

\* the skip message of the total-changes limit
TotalSkipMessage(totalChanges, additions, deletions) ==
    <<"<## Cyclone Notice / **PR Too Large for Automated Review**>">>
    \o <<"T", "h", "i", "s", " ", "P", "R", " ", "h", "a", "s", " ", "*", "*">> \o Itoa(totalChanges)
    \o <<" ", "t", "o", "t", "a", "l", " ", "c", "h", "a", "n", "g", "e", "s", "*", "*", " ", "(", "+">> \o Itoa(additions) \o <<",", " ", "-">> \o Itoa(deletions)
    \o <<")", ",", " ", "e", "x", "c", "e", "e", "d", "i", "n", "g", " ", "o", "u", "r", " ", "l", "i", "m", "i", "t", " ", "o", "f", " ">> \o Itoa(MAX_TOTAL_CHANGES) \o <<" ", "c", "h", "a", "n", "g", "e", "s", ".">>
    \o <<"<Recommendation / Each PR should tell a focused story>">>

\* the warning line of the files threshold
FilesWarning(files) ==
    <<"U+1F4C1", " ", "*", "*">> \o Itoa(files) \o <<" ", "f", "i", "l", "e", "s", " ", "c", "h", "a", "n", "g", "e", "d", "*", "*", " ", "(", "c", "o", "n", "s", "i", "d", "e", "r", " ", "<", " ">>
    \o Itoa(WARN_FILES_THRESHOLD) \o <<")">>

\* the warning line of the additions threshold
AdditionsWarning(additions) ==
    <<"U+1F4C8", " ", "*", "*">> \o Itoa(additions) \o <<" ", "l", "i", "n", "e", "s", " ", "a", "d", "d", "e", "d", "*", "*", " ", "(", "c", "o", "n", "s", "i", "d", "e", "r", " ", "<", " ">>
    \o Itoa(WARN_ADDITIONS_THRESHOLD) \o <<")">>

WarningHead == <<"*", "*", "U+26A0", "U+FE0F", " ", "L", "a", "r", "g", "e", " ", "P", "R", " ", "W", "a", "r", "n", "i", "n", "g", ":", "*", "*", "\n">>
WarningFoot ==
    <<"\n", "\n", "*", "S", "m", "a", "l", "l", "e", "r", " ", "P", "R", "s", " ", "a", "r", "e", " ", "e", "a", "s", "i", "e", "r", " ", "t", "o", " ", "r", "e", "v", "i", "e", "w", " ", "t", "h", "o", "r", "o", "u", "g", "h", "l", "y", " ", "a", "n", "d", " ", "m", "e", "r", "g", "e", " ", "f", "a", "s", "t", "e", "r", ".", "*", "\n", "\n", "-", "-", "-">>

\* faulty variant of SizeWarnings: the additions warning only when there is
\* no files warning
SizeWarningsElseIf(files, additions) ==
    IF files > WARN_FILES_THRESHOLD THEN <<FilesWarning(files)>>
    ELSE IF additions > WARN_ADDITIONS_THRESHOLD THEN <<AdditionsWarning(additions)>>
    ELSE <<>>

\* the warnings slice: the files line, then the additions line
SizeWarnings(files, additions) ==
    (IF files > WARN_FILES_THRESHOLD THEN <<FilesWarning(files)>> ELSE <<>>)
    \o (IF additions > WARN_ADDITIONS_THRESHOLD
        THEN <<AdditionsWarning(additions)>> ELSE <<>>)

\* warningMessage: "" without warnings; one warning is formatted with a
\* line break of its own, two warnings one per line
WarningMessageOf(warnings) ==
    IF Len(warnings) = 0 THEN <<>>
    ELSE IF Len(warnings) > 1
    THEN WarningHead \o warnings[1] \o <<"\n">> \o warnings[2] \o WarningFoot
    ELSE WarningHead \o (warnings[1] \o <<"\n">>) \o WarningFoot

\* faulty variant of checkPRSize: the additions limit is checked before the
\* files limit
checkPRSizeAdditionsFirst(files, additions, deletions) ==
    IF additions > MAX_ADDITIONS_FOR_REVIEW
    THEN [ShouldReview |-> FALSE, WarningMessage |-> <<>>,
          SkipMessage |-> AdditionsSkipMessage(additions)]
    ELSE IF files > MAX_FILES_FOR_REVIEW
    THEN [ShouldReview |-> FALSE, WarningMessage |-> <<>>,
          SkipMessage |-> FilesSkipMessage(files)]
    ELSE IF additions + deletions > MAX_TOTAL_CHANGES
    THEN [ShouldReview |-> FALSE, WarningMessage |-> <<>>,
          SkipMessage |-> TotalSkipMessage(additions + deletions, additions, deletions)]
    ELSE [ShouldReview |-> TRUE,
          WarningMessage |-> WarningMessageOf(SizeWarnings(files, additions)),
          SkipMessage |-> <<>>]

\* checkPRSize(pr) on pr's changed files, additions and deletions
checkPRSize(files, additions, deletions) ==
    LET totalChanges == additions + deletions
    IN  IF files > MAX_FILES_FOR_REVIEW
        THEN [ShouldReview |-> FALSE, WarningMessage |-> <<>>,
              SkipMessage |-> FilesSkipMessage(files)]
        ELSE IF additions > MAX_ADDITIONS_FOR_REVIEW
        THEN [ShouldReview |-> FALSE, WarningMessage |-> <<>>,
              SkipMessage |-> AdditionsSkipMessage(additions)]
        ELSE IF totalChanges > MAX_TOTAL_CHANGES
        THEN [ShouldReview |-> FALSE, WarningMessage |-> <<>>,
              SkipMessage |-> TotalSkipMessage(totalChanges, additions, deletions)]
        ELSE [ShouldReview |-> TRUE,
              WarningMessage |-> WarningMessageOf(SizeWarnings(files, additions)),
              SkipMessage |-> <<>>]

(***************************************************************************)
(* The review configuration and its resolver.                              *)
(***************************************************************************)
NilConfig == [found |-> FALSE]

IsWildcard(name) == name = "*" \/ name = "default"

\* the entry at position k as the returned configuration
RepoAt(repos, k) ==
    [found |-> TRUE, Name |-> repos[k].Name,
     Precision |-> repos[k].Precision, CustomPrompt |-> repos[k].CustomPrompt]

\* the first loop: the first entry named repoName, or nil
FirstExact(repos, repoName) ==
    IF \E k \in 1..Len(repos) : repos[k].Name = repoName
    THEN RepoAt(repos, Min({k \in 1..Len(repos) : repos[k].Name = repoName}))
    ELSE NilConfig

\* the second loop: the first wildcard entry, or nil
FirstWildcard(repos) ==
    IF \E k \in 1..Len(repos) : IsWildcard(repos[k].Name)
    THEN RepoAt(repos, Min({k \in 1..Len(repos) : IsWildcard(repos[k].Name)}))
    ELSE NilConfig

\* faulty variant of GetRepositoryConfig: one loop over the repositories that
\* returns the first entry that is named repoName or is a wildcard
RECURSIVE GetRepositoryConfigFirstMatch(_, _, _)
GetRepositoryConfigFirstMatch(orgs, owner, repoName) ==
    IF orgs = <<>> THEN NilConfig
    ELSE LET org == Head(orgs)
             hits == {k \in 1..Len(org.Repositories) :
                         \/ org.Repositories[k].Name = repoName
                         \/ IsWildcard(org.Repositories[k].Name)}
         IN  IF org.Name = owner /\ hits # {}
             THEN RepoAt(org.Repositories, Min(hits))
             ELSE GetRepositoryConfigFirstMatch(Tail(orgs), owner, repoName)

\* GetRepositoryConfig: in each organization named owner, in list order, the
\* entry named repoName, else the first wildcard entry; nil when no
\* organization named owner has either
RECURSIVE GetRepositoryConfig(_, _, _)
GetRepositoryConfig(orgs, owner, repoName) ==
    IF orgs = <<>> THEN NilConfig
    ELSE LET org == Head(orgs)
             exact == FirstExact(org.Repositories, repoName)
             wild == FirstWildcard(org.Repositories)
         IN  IF org.Name = owner /\ exact.found THEN exact
             ELSE IF org.Name = owner /\ wild.found THEN wild
             ELSE GetRepositoryConfig(Tail(orgs), owner, repoName)

\* the configuration substituted when the resolver returns nil
DefaultRepositoryConfig(repoName) ==
    [found |-> TRUE, Name |-> repoName, Precision |-> "medium", CustomPrompt |-> <<>>]

(***************************************************************************)
(* The prompt template and its variables.                                  *)
(***************************************************************************)
TitleToken == <<"{", "{", ".", "T", "i", "t", "l", "e", "}", "}">>
BodyToken == <<"{", "{", ".", "B", "o", "d", "y", "}", "}">>
PrecisionToken == <<"{", "{", ".", "P", "r", "e", "c", "i", "s", "i", "o", "n", "}", "}">>
DiffToken == <<"{", "{", ".", "D", "i", "f", "f", "}", "}">>
CustomPromptToken == <<"{", "{", ".", "C", "u", "s", "t", "o", "m", "P", "r", "o", "m", "p", "t", "}", "}">>

\* strings.ReplaceAll(s, old, new) for a non-empty old: the non-overlapping
\* occurrences of old, found from the left, replaced by new
RECURSIVE ReplaceAll(_, _, _)
ReplaceAll(s, old, new) ==
    IF Len(s) < Len(old) THEN s
    ELSE IF SubSeq(s, 1, Len(old)) = old
    THEN new \o ReplaceAll(SubSeq(s, Len(old) + 1, Len(s)), old, new)
    ELSE <<Head(s)>> \o ReplaceAll(Tail(s), old, new)

\* substitutePromptVariables: five replacements, one after the other
substitutePromptVariables(template, data) ==
    LET r1 == ReplaceAll(template, TitleToken, data.Title)
        r2 == ReplaceAll(r1, BodyToken, data.Body)
        r3 == ReplaceAll(r2, PrecisionToken, data.Precision)
        r4 == ReplaceAll(r3, DiffToken, data.Diff)
    IN  ReplaceAll(r4, CustomPromptToken, data.CustomPrompt)

(***************************************************************************)
(* Inputs of the pure functions.                                           *)
(***************************************************************************)
SampleDigits == {"0", "4", "5"}

\* digit texts of 1..MaxDigits digits
DigitTexts ==
    UNION {[1..k -> SampleDigits] : k \in 1..MaxDigits}

\* line fields: numbers, signed numbers, and texts that are no number
LineTexts ==
    DigitTexts
    \cup {<<"-">> \o d : d \in DigitTexts}
    \cup {<<"+">> \o d : d \in DigitTexts}
    \cup {<<>>, <<"x">>, <<"4", "x">>, <<"4", "-", "5">>, <<" ", "4", "5", " ">>, <<"+">>, <<"4", ".", "5">>}

PathTexts == {<<"a">>, <<" ", "m", ".", "g", "o", " ">>}
TailTexts == {<<"x">>, <<" ", "w", ":", " ", "y", ":">>, <<>>}

\* headers path:line:tail, and headers with fewer colons
HeaderTexts ==
    {p \o Colon \o l \o Colon \o t : p \in PathTexts, l \in LineTexts, t \in TailTexts}
    \cup {<<"a", ":", "4", "5">>, <<"a">>, <<>>, <<":">>, <<":", ":">>}

\* what follows the header: delimiters well-formed, missing, unmatched,
\* adjacent and overlapping
BodyTexts ==
    {<<"$", "$", "c", "$", "$">>, <<" ", "$", "$", " ", "c", " ", "d", " ", "$", "$", " ", "t">>, <<"$", "$", "c", "$", "$", "d", "$", "$">>, <<"$", "$", "$">>, <<"$", "$">>, <<>>,
     <<"$", "$", "$", "$">>, <<"c">>, <<"$", "$", "c", "$", "$", "$">>, <<"$", "$", "$", "$", "$">>}

BlockInputs == {h \o b : h \in HeaderTexts, b \in BodyTexts}

\* the text before the first PR_COMMENT: marker
Preambles ==
    {<<>>,
     <<"S", "U", "M", "M", "A", "R", "Y", ":", " ", "$", "$", "H", "e", "l", "l", "o", "$", "$">>,
     <<"S", "U", "M", "M", "A", "R", "Y", ":", " ", "$", "$", " ", "H", "e", "l", "l", "o", " ", "$", "$", "\n", "P", "O", "E", "M", ":", " ", "$", "$", " ", "o", "d", "e", " ", "$", "$", "\n">>,
     <<"P", "O", "E", "M", ":", " ", "$", "$", "o", "d", "e", "$", "$">>,
     <<"S", "U", "M", "M", "A", "R", "Y", ":", " ", "H", "e", "l", "l", "o", "\n">>,
     <<"S", "U", "M", "M", "A", "R", "Y", ":", " ", "$", "$", "H", "e", "l", "l", "o">>,
     <<"S", "U", "M", "M", "A", "R", "Y", ":", " ", "P", "O", "E", "M", ":", " ", "$", "$", "o", "d", "e", "$", "$">>,
     <<"S", "U", "M", "M", "A", "R", "Y", ":", "$", "$", " ", "$", "$">>,
     <<"i", "n", "t", "r", "o", "\n">>}

\* fragments of a reply: well-formed ones (two of them on the same path and
\* line), discarded ones, and one whose delimiters overlap
SampleBlocks ==
    {<<"m", ".", "g", "o", ":", "4", "5", ":", " ", "w", ":", " ", "$", "$", " ", "f", "i", "x", " ", "$", "$", "\n">>,
     <<"m", ".", "g", "o", ":", "4", "5", ":", " ", "n", ":", " ", "$", "$", " ", "d", "u", "p", " ", "$", "$">>,
     <<"a", ":", "7", ":", "x", "$", "$", "c", "$", "$", "d", "$", "$">>,
     <<"a", ":", "q", ":", "x", "$", "$", "c", "$", "$">>,
     <<"a", ":", "7", "$", "$", "c", "$", "$">>,
     <<"a", ":", "0", ":", "x", "$", "$", "c", "$", "$">>,
     <<"a", ":", "-", "3", ":", "x", "$", "$", "c", "$", "$">>,
     <<"a", ":", "7", ":", "x", "$", "$", "$">>,
     <<"a", ":", "7", ":", "x", "$", "$", "c">>,
     <<>>}

RECURSIVE JoinBlocks(_)
JoinBlocks(bs) ==
    IF bs = <<>> THEN <<>> ELSE CommentMarker \o Head(bs) \o JoinBlocks(Tail(bs))

BlockSeqs == UNION {[1..k -> SampleBlocks] : k \in 0..MaxFrags}

TextInputs == {p \o JoinBlocks(bs) : p \in Preambles, bs \in BlockSeqs}

Actions == {"opened", "ready_for_review", "synchronize", "closed", "edited", "reopened", ""}

Near(t) == (t - Margin)..(t + Margin)
FilesInputs ==
    {0, 10} \cup Near(WARN_FILES_THRESHOLD) \cup Near(MAX_FILES_FOR_REVIEW)
AdditionsInputs ==
    {0, 10, 450} \cup Near(WARN_ADDITIONS_THRESHOLD)
    \cup Near(MAX_ADDITIONS_FOR_REVIEW) \cup Near(MAX_TOTAL_CHANGES)
DeletionsInputs ==
    {0} \cup Near(MAX_TOTAL_CHANGES - MAX_ADDITIONS_FOR_REVIEW) \cup Near(MAX_TOTAL_CHANGES)

\* review configurations: organization lists without the owner, with it once,
\* with it after another organization, and with it twice; the first
\* organization holds up to MaxRepos entries, a second one at most one, and
\* entries are told apart by their precision and prompt
RepoNames == {"svc", "lib", "*", "default"}
RepoNameSeqs == UNION {[1..k -> RepoNames] : k \in 0..MaxRepos}

PrecisionAt(k) ==
    CASE k % 3 = 1 -> "minor"
      [] k % 3 = 2 -> "medium"
      [] OTHER -> "strict"

ReposOf(names, o) ==
    [k \in 1..Len(names) |->
        [Name |-> names[k], Precision |-> PrecisionAt(k),
         CustomPrompt |-> Itoa(o) \o <<".">> \o Itoa(k)]]

OrgNameSeqs ==
    {<<>>, <<"acme">>, <<"solo">>, <<"acme", "solo">>, <<"solo", "acme">>,
     <<"solo", "solo">>}

ShortRepoNameSeqs == {<<>>} \cup {<<n>> : n \in RepoNames}

ConfigInputs ==
    {<<>>}
    \cup {<<[Name |-> ns[1], Repositories |-> ReposOf(r, 1)]>> :
             ns \in {s \in OrgNameSeqs : Len(s) = 1}, r \in RepoNameSeqs}
    \cup {<<[Name |-> ns[1], Repositories |-> ReposOf(r1, 1)],
            [Name |-> ns[2], Repositories |-> ReposOf(r2, 2)]>> :
             ns \in {s \in OrgNameSeqs : Len(s) = 2},
             r1 \in RepoNameSeqs, r2 \in ShortRepoNameSeqs}

\* templates with the five placeholders, and values for them: plain ones,
\* the empty one, and values in which a placeholder is written out
TemplateInputs ==
    {<<"T", ":", "{", "{", ".", "T", "i", "t", "l", "e", "}", "}", " ", "B", ":", "{", "{", ".", "B", "o", "d", "y", "}", "}", " ", "P", ":", "{", "{", ".", "P", "r", "e", "c", "i", "s", "i", "o", "n", "}", "}", " ", "D", ":", "{", "{", ".", "D", "i", "f", "f", "}", "}", " ", "C", ":", "{", "{", ".", "C", "u", "s", "t", "o", "m", "P", "r", "o", "m", "p", "t", "}", "}">>,
     <<"{", "{", ".", "C", "u", "s", "t", "o", "m", "P", "r", "o", "m", "p", "t", "}", "}", "{", "{", ".", "D", "i", "f", "f", "}", "}", "{", "{", ".", "P", "r", "e", "c", "i", "s", "i", "o", "n", "}", "}", "{", "{", ".", "B", "o", "d", "y", "}", "}", "{", "{", ".", "T", "i", "t", "l", "e", "}", "}", "{", "{", ".", "T", "i", "t", "l", "e", "}", "}">>}
ValueInputs == {<<>>, <<"f", "i", "x">>, <<"a", " ", "{", "{", ".", "T", "i", "t", "l", "e", "}", "}", " ", "b">>, <<"{", "{", ".", "C", "u", "s", "t", "o", "m", "P", "r", "o", "m", "p", "t", "}", "}">>}
PromptDataInputs ==
    [Title : ValueInputs, Body : ValueInputs, Precision : {<<"s", "t", "r", "i", "c", "t">>},
     Diff : ValueInputs, CustomPrompt : ValueInputs]

\* texts for the section extraction: the preambles, sections whose
\* delimiters are missing, unmatched or overlapping, each alone and followed
\* by one fragment
SectionPreambles ==
    Preambles
    \cup {<<"S", "U", "M", "M", "A", "R", "Y", ":", " ", "$", "$", "$">>, <<"S", "U", "M", "M", "A", "R", "Y", ":", " ", "$", "$", "$", "$">>, <<"S", "U", "M", "M", "A", "R", "Y", ":", " ", "$", "$", "a", "$", "$", "$", "b", "$", "$">>,
          <<"x", " ", "$", "$", " ", "y", " ", "$", "$", " ", "S", "U", "M", "M", "A", "R", "Y", ":", " ", "$", "$", " ", "s", " ", "$", "$", " ", "z", " ", "$", "$", " ", "t", " ", "$", "$">>,
          <<"P", "O", "E", "M", ":", " ", "$", "$", " ", "p", " ", "$", "$", "\n", "S", "U", "M", "M", "A", "R", "Y", ":", " ", "$", "$", " ", "s", " ", "$", "$">>,
          <<"S", "U", "M", "M", "A", "R", "Y", ":", " ", "$", "$", " ", "o", "n", "e", " ", "$", "$", " ", "S", "U", "M", "M", "A", "R", "Y", ":", " ", "$", "$", " ", "t", "w", "o", " ", "$", "$">>,
          <<"m", ".", "g", "o", ":", "4", "5", ":", " ", "w", ":", " ", "$", "$", " ", "f", "i", "x", " ", "$", "$", "\n">>}
SectionTextInputs ==
    {p \o JoinBlocks(bs) : p \in SectionPreambles,
                           bs \in {<<>>} \cup {<<b>> : b \in SampleBlocks}}

Calls ==
    {[fn |-> "parseClaudeResponse", text |-> t] : t \in TextInputs \cup SectionTextInputs}
    \cup {[fn |-> "extractSection", text |-> t, sectionHeader |-> h] :
             t \in SectionTextInputs, h \in {SummaryMarker, PoemMarker}}
    \cup {[fn |-> "substitutePromptVariables", template |-> t, data |-> d] :
             t \in TemplateInputs, d \in PromptDataInputs}
    \cup {[fn |-> "GetRepositoryConfig", orgs |-> c, owner |-> "solo", repoName |-> r] :
             c \in ConfigInputs, r \in {"svc", "*"}}
    \cup {[fn |-> "parsePRCommentBlock", block |-> b] : b \in BlockInputs}
    \cup {[fn |-> "shouldTriggerReview", action |-> a, draft |-> d] :
             a \in Actions, d \in BOOLEAN}
    \cup {[fn |-> "checkPRSize", files |-> f, additions |-> a, deletions |-> d] :
             f \in FilesInputs, a \in AdditionsInputs, d \in DeletionsInputs}

NoCall == [fn |-> "none"]
NotReturned == [kind |-> "none"]

(***************************************************************************)
(* The pure functions applied to their inputs.                             *)
(***************************************************************************)
IdleInit ==
    /\ events = <<>>
    /\ units = <<>>
    /\ posted = <<>>
    /\ crashed = FALSE

FnInit ==
    /\ call \in Calls
    /\ ret = NotReturned
    /\ IdleInit

ApplyParse ==
    /\ call.fn = "parseClaudeResponse"
    /\ ret = NotReturned
    /\ ret' = [kind |-> "parse", value |-> parseClaudeResponse(call.text)]
    /\ UNCHANGED <<call, events, units, posted, crashed>>

ApplyParseBlock ==
    /\ call.fn = "parsePRCommentBlock"
    /\ ret = NotReturned
    /\ ret' = [kind |-> "block", value |-> parsePRCommentBlock(call.block)]
    /\ UNCHANGED <<call, events, units, posted, crashed>>

ApplyShouldTrigger ==
    /\ call.fn = "shouldTriggerReview"
    /\ ret = NotReturned
    /\ ret' = [kind |-> "bool", value |-> shouldTriggerReview(call.action, call.draft)]
    /\ UNCHANGED <<call, events, units, posted, crashed>>

ApplyCheckPRSize ==
    /\ call.fn = "checkPRSize"
    /\ ret = NotReturned
    /\ ret' = [kind |-> "size",
               value |-> checkPRSize(call.files, call.additions, call.deletions)]
    /\ UNCHANGED <<call, events, units, posted, crashed>>

ApplyGetRepositoryConfig ==
    /\ call.fn = "GetRepositoryConfig"
    /\ ret = NotReturned
    /\ ret' = [kind |-> "config",
               value |-> GetRepositoryConfig(call.orgs, call.owner, call.repoName)]
    /\ UNCHANGED <<call, events, units, posted, crashed>>

ApplySubstitutePromptVariables ==
    /\ call.fn = "substitutePromptVariables"
    /\ ret = NotReturned
    /\ ret' = [kind |-> "prompt",
               value |-> substitutePromptVariables(call.template, call.data)]
    /\ UNCHANGED <<call, events, units, posted, crashed>>

ApplyExtractSection ==
    /\ call.fn = "extractSection"
    /\ ret = NotReturned
    /\ ret' = [kind |-> "section",
               value |-> extractSection(call.text, call.sectionHeader)]
    /\ UNCHANGED <<call, events, units, posted, crashed>>

FnNext ==
    \/ ApplyParse
    \/ ApplyExtractSection
    \/ ApplySubstitutePromptVariables
    \/ ApplyGetRepositoryConfig
    \/ ApplyParseBlock
    \/ ApplyShouldTrigger
    \/ ApplyCheckPRSize

SpecFn == FnInit /\ [][FnNext]_vars

(***************************************************************************)
(* The process: webhook deliveries and the goroutines they start.          *)
(***************************************************************************)
\* the review-config.json loaded at startup
LoadedConfig ==
    <<[Name |-> "acme",
       Repositories |-> <<[Name |-> "svc", Precision |-> "strict", CustomPrompt |-> <<"c", "a", "r", "e", "f", "u", "l">>],
                          [Name |-> "*", Precision |-> "minor", CustomPrompt |-> <<"a", "n", "y">>]>>],
      [Name |-> "solo",
       Repositories |-> <<[Name |-> "lib", Precision |-> "medium", CustomPrompt |-> <<>>]>>]>>

\* pull requests: a small one in a configured repository, one above both
\* warning thresholds in an unknown organization, one above the files limit
\* in a known organization that has neither an entry nor a wildcard for it
SmallPR == [owner |-> "acme", repo |-> "svc", files |-> 3, additions |-> 50, deletions |-> 10]
WarnPR == [owner |-> "nobody", repo |-> "y", files |-> 21, additions |-> 450, deletions |-> 0]
HugePR == [owner |-> "solo", repo |-> "other", files |-> 26, additions |-> 10, deletions |-> 0]

\* decoded POST deliveries: events that qualify (a delivery may come again
\* for the same pull request), a draft, and an action that is not reviewed
Payloads ==
    {[action |-> "opened", draft |-> FALSE, pr |-> SmallPR],
     [action |-> "ready_for_review", draft |-> FALSE, pr |-> WarnPR],
     [action |-> "opened", draft |-> FALSE, pr |-> HugePR],
     [action |-> "opened", draft |-> TRUE, pr |-> SmallPR],
     [action |-> "synchronize", draft |-> FALSE, pr |-> SmallPR]}

\* what the model may answer
GoodReply == <<"S", "U", "M", "M", "A", "R", "Y", ":", " ", "$", "$", "H", "e", "l", "l", "o", "$", "$", "\n", "P", "R", "_", "C", "O", "M", "M", "E", "N", "T", ":", "m", ".", "g", "o", ":", "4", "5", ":", " ", "w", ":", " ", "$", "$", " ", "f", "i", "x", " ", "$", "$">>
OverlapReply == <<"S", "U", "M", "M", "A", "R", "Y", ":", " ", "$", "$", "H", "e", "l", "l", "o", "$", "$", "\n", "P", "R", "_", "C", "O", "M", "M", "E", "N", "T", ":", "a", ":", "7", ":", "x", "$", "$", "$">>
Replies == {GoodReply, OverlapReply}

ErrorPlaceholder == <<"E", "r", "r", "o", "r", " ", "g", "e", "n", "e", "r", "a", "t", "i", "n", "g", " ", "A", "I", " ", "r", "e", "v", "i", "e", "w">>
NoResponsePlaceholder == <<"N", "o", " ", "r", "e", "s", "p", "o", "n", "s", "e", " ", "f", "r", "o", "m", " ", "C", "l", "a", "u", "d", "e">>

NoUnit == [pc |-> "none"]
NoReview == [Summary |-> <<>>, Comments |-> <<>>]

Init ==
    /\ call = NoCall
    /\ ret = NotReturned
    /\ IdleInit

\* handleWebhook on a request that is no POST (405) or whose body does not
\* decode (400)
HandleBadRequest(status) ==
    /\ ~crashed
    /\ Len(events) < MaxEvents
    /\ events' = Append(events, [valid |-> FALSE, status |-> status])
    /\ units' = Append(units, NoUnit)
    /\ UNCHANGED <<call, ret, posted, crashed>>

\* faulty variant of HandleWebhook: starts the goroutine without asking the
\* filter
HandleWebhookUnfiltered(payload) ==
    /\ ~crashed
    /\ Len(events) < MaxEvents
    /\ events' = Append(events, [valid |-> TRUE, action |-> payload.action,
                                 draft |-> payload.draft, status |-> 0])
    /\ units' = Append(units, [pc |-> "start", pr |-> payload.pr,
                               calls |-> <<>>, review |-> [Summary |-> <<>>, Comments |-> <<>>]])
    /\ UNCHANGED <<call, ret, posted, crashed>>

\* faulty variant of HandleWebhook: no goroutine for a pull request that
\* an earlier event already started one for
HandleWebhookDedup(payload) ==
    /\ ~crashed
    /\ Len(events) < MaxEvents
    /\ IF \/ ~shouldTriggerReview(payload.action, payload.draft)
          \/ \E j \in 1..Len(units) : units[j] # NoUnit /\ units[j].pr = payload.pr
       THEN /\ events' = Append(events, [valid |-> TRUE, action |-> payload.action,
                                         draft |-> payload.draft, status |-> 200])
            /\ units' = Append(units, NoUnit)
       ELSE /\ events' = Append(events, [valid |-> TRUE, action |-> payload.action,
                                         draft |-> payload.draft, status |-> 0])
            /\ units' = Append(units, [pc |-> "start", pr |-> payload.pr,
                                       calls |-> <<>>, review |-> NoReview])
    /\ UNCHANGED <<call, ret, posted, crashed>>

\* handleWebhook on a decoded POST: a filtered event is answered 200 at
\* once; for any other the goroutine is started on the payload's pull
\* request and the handler goes on to write its 200
HandleWebhook(payload) ==
    /\ ~crashed
    /\ Len(events) < MaxEvents
    /\ IF ~shouldTriggerReview(payload.action, payload.draft)
       THEN /\ events' = Append(events, [valid |-> TRUE, action |-> payload.action,
                                         draft |-> payload.draft, status |-> 200])
            /\ units' = Append(units, NoUnit)
       ELSE /\ events' = Append(events, [valid |-> TRUE, action |-> payload.action,
                                         draft |-> payload.draft, status |-> 0])
            /\ units' = Append(units, [pc |-> "start", pr |-> payload.pr,
                                       calls |-> <<>>, review |-> NoReview])
    /\ UNCHANGED <<call, ret, posted, crashed>>

\* w.WriteHeader(http.StatusOK) after the go statement
WriteOK(i) ==
    /\ ~crashed
    /\ events[i].valid
    /\ events[i].status = 0
    /\ events' = [events EXCEPT ![i].status = 200]
    /\ UNCHANGED <<call, ret, units, posted, crashed>>

\* repoConfig of ProcessPullRequest: the resolved entry, or the default
RepoConfigOf(pr) ==
    LET found == GetRepositoryConfig(LoadedConfig, pr.owner, pr.repo)
    IN  IF found = NilConfig THEN DefaultRepositoryConfig(pr.repo) ELSE found

\* sizeCheck of ProcessPullRequest
SizeCheckOf(pr) == checkPRSize(pr.files, pr.additions, pr.deletions)

\* faulty variant of Start: a repository without configuration is ignored
StartIgnoreUnconfigured(i) ==
    /\ ~crashed
    /\ units[i].pc = "start"
    /\ units' = [units EXCEPT
                    ![i].pc = IF GetRepositoryConfig(LoadedConfig, units[i].pr.owner,
                                                     units[i].pr.repo) = NilConfig
                              THEN "done"
                              ELSE IF SizeCheckOf(units[i].pr).ShouldReview
                              THEN "getDiff" ELSE "postComment"]
    /\ UNCHANGED <<call, ret, events, posted, crashed>>

\* ProcessPullRequest up to its first outbound call: the configuration
\* lookup with its default, and the size check
Start(i) ==
    /\ ~crashed
    /\ units[i].pc = "start"
    /\ units' = [units EXCEPT
                    ![i].pc = IF SizeCheckOf(units[i].pr).ShouldReview
                              THEN "getDiff" ELSE "postComment"]
    /\ UNCHANGED <<call, ret, events, posted, crashed>>

\* faulty variant of PostComment: no return after the skip message
PostCommentThenContinue(i, ok) ==
    /\ ~crashed
    /\ units[i].pc = "postComment"
    /\ units' = [units EXCEPT
                    ![i].pc = "getDiff",
                    ![i].calls = Append(@, [op |-> "PostComment", ok |-> ok,
                                            body |-> SizeCheckOf(units[i].pr).SkipMessage])]
    /\ posted' = IF ok THEN Append(posted, [kind |-> "comment", event |-> i]) ELSE posted
    /\ UNCHANGED <<call, ret, events, crashed>>

\* PostComment with the skip message, then return whatever it answers
PostComment(i, ok) ==
    /\ ~crashed
    /\ units[i].pc = "postComment"
    /\ units' = [units EXCEPT
                    ![i].pc = "done",
                    ![i].calls = Append(@, [op |-> "PostComment", ok |-> ok,
                                            body |-> SizeCheckOf(units[i].pr).SkipMessage])]
    /\ posted' = IF ok THEN Append(posted, [kind |-> "comment", event |-> i]) ELSE posted
    /\ UNCHANGED <<call, ret, events, crashed>>

\* faulty variant of GetPRDiff: the error is logged and the review goes on
\* with an empty diff
GetPRDiffContinueOnError(i, ok) ==
    /\ ~crashed
    /\ units[i].pc = "getDiff"
    /\ units' = [units EXCEPT
                    ![i].pc = "generate",
                    ![i].calls = Append(@, [op |-> "GetPRDiff", ok |-> ok])]
    /\ UNCHANGED <<call, ret, events, posted, crashed>>

\* GetPRDiff; an error ends the goroutine
GetPRDiff(i, ok) ==
    /\ ~crashed
    /\ units[i].pc = "getDiff"
    /\ units' = [units EXCEPT
                    ![i].pc = IF ok THEN "generate" ELSE "done",
                    ![i].calls = Append(@, [op |-> "GetPRDiff", ok |-> ok])]
    /\ UNCHANGED <<call, ret, events, posted, crashed>>

\* how the model call may end
ClaudeOutcomes ==
    {[kind |-> "failed"], [kind |-> "empty"]} \cup {[kind |-> "text", text |-> r] : r \in Replies}

\* callClaudeAPI: the reply text, or one of the two placeholders
ClaudeText(outcome) ==
    CASE outcome.kind = "failed" -> ErrorPlaceholder
      [] outcome.kind = "empty" -> NoResponsePlaceholder
      [] OTHER -> outcome.text

\* faulty variant of WithSizeWarning: the warning after the summary
WithSizeWarningAppended(warningMessage, reviewResult) ==
    IF warningMessage # <<>>
    THEN [reviewResult EXCEPT !.Summary = reviewResult.Summary \o warningMessage]
    ELSE reviewResult

\* the size warning prepended to the summary when there is one
WithSizeWarning(warningMessage, reviewResult) ==
    IF warningMessage # <<>>
    THEN [reviewResult EXCEPT !.Summary = warningMessage \o reviewResult.Summary]
    ELSE reviewResult

\* faulty variant of GenerateReview: a failed model call ends the goroutine
GenerateReviewAbortOnError(i, outcome) ==
    /\ ~crashed
    /\ units[i].pc = "generate"
    /\ LET reviewResult == parseClaudeResponse(ClaudeText(outcome))
           called == Append(units[i].calls,
                            [op |-> "Claude", ok |-> outcome.kind # "failed",
                             reply |-> ClaudeText(outcome),
                             precision |-> RepoConfigOf(units[i].pr).Precision,
                             customPrompt |-> RepoConfigOf(units[i].pr).CustomPrompt])
       IN  IF outcome.kind = "failed"
           THEN /\ units' = [units EXCEPT ![i].pc = "done", ![i].calls = called]
                /\ crashed' = crashed
           ELSE IF reviewResult.panicked
           THEN /\ units' = [units EXCEPT ![i].pc = "panicked", ![i].calls = called]
                /\ crashed' = TRUE
           ELSE /\ units' = [units EXCEPT
                        ![i].pc = "postReview",
                        ![i].calls = called,
                        ![i].review =
                            WithSizeWarning(SizeCheckOf(units[i].pr).WarningMessage,
                                            [Summary |-> reviewResult.Summary,
                                             Comments |-> reviewResult.Comments])]
                /\ crashed' = crashed
    /\ UNCHANGED <<call, ret, events, posted>>

\* GenerateReview (the model call and the parse of its answer) and the
\* size warning; a panic of the parser ends the process
GenerateReview(i, outcome) ==
    /\ ~crashed
    /\ units[i].pc = "generate"
    /\ LET reviewResult == parseClaudeResponse(ClaudeText(outcome))
           called == Append(units[i].calls,
                            [op |-> "Claude", ok |-> outcome.kind # "failed",
                             reply |-> ClaudeText(outcome),
                             precision |-> RepoConfigOf(units[i].pr).Precision,
                             customPrompt |-> RepoConfigOf(units[i].pr).CustomPrompt])
       IN  IF reviewResult.panicked
           THEN /\ units' = [units EXCEPT ![i].pc = "panicked", ![i].calls = called]
                /\ crashed' = TRUE
           ELSE /\ units' = [units EXCEPT
                        ![i].pc = "postReview",
                        ![i].calls = called,
                        ![i].review =
                            WithSizeWarning(SizeCheckOf(units[i].pr).WarningMessage,
                                            [Summary |-> reviewResult.Summary,
                                             Comments |-> reviewResult.Comments])]
                /\ crashed' = crashed
    /\ UNCHANGED <<call, ret, events, posted>>

\* faulty variant of PostReview: a failed post is tried once more
PostReviewRetry(i, ok) ==
    /\ ~crashed
    /\ units[i].pc = "postReview"
    /\ units' = [units EXCEPT
                    ![i].pc = IF ~ok /\ \A j \in 1..Len(units[i].calls) :
                                           units[i].calls[j].op # "PostReview"
                              THEN "postReview" ELSE "done",
                    ![i].calls = Append(@, [op |-> "PostReview", ok |-> ok])]
    /\ posted' = IF ok THEN Append(posted, [kind |-> "review", event |-> i]) ELSE posted
    /\ UNCHANGED <<call, ret, events, crashed>>

\* PostReview: one COMMENT review with the summary and the draft comments
PostReview(i, ok) ==
    /\ ~crashed
    /\ units[i].pc = "postReview"
    /\ units' = [units EXCEPT
                    ![i].pc = "done",
                    ![i].calls = Append(@, [op |-> "PostReview", ok |-> ok])]
    /\ posted' = IF ok THEN Append(posted, [kind |-> "review", event |-> i]) ELSE posted
    /\ UNCHANGED <<call, ret, events, crashed>>

Next ==
    \/ \E status \in {400, 405} : HandleBadRequest(status)
    \/ \E payload \in Payloads : HandleWebhook(payload)
    \/ \E i \in 1..Len(events) : WriteOK(i)
    \/ \E i \in 1..Len(units) : Start(i)
    \/ \E i \in 1..Len(units), ok \in BOOLEAN : PostComment(i, ok)
    \/ \E i \in 1..Len(units), ok \in BOOLEAN : GetPRDiff(i, ok)
    \/ \E i \in 1..Len(units), outcome \in ClaudeOutcomes :
          GenerateReview(i, outcome)
    \/ \E i \in 1..Len(units), ok \in BOOLEAN : PostReview(i, ok)

Spec == Init /\ [][Next]_vars

\* the next statement of goroutine i, whatever its outbound call answers
UnitStep(i) ==
    /\ i \in 1..Len(units)
    /\ \/ Start(i)
       \/ \E ok \in BOOLEAN : PostComment(i, ok)
       \/ \E ok \in BOOLEAN : GetPRDiff(i, ok)
       \/ \E outcome \in ClaudeOutcomes : GenerateReview(i, outcome)
       \/ \E ok \in BOOLEAN : PostReview(i, ok)

\* the handler's write of the 200 for delivery i
AckStep(i) == i \in 1..Len(events) /\ WriteOK(i)

\* the scheduler runs every goroutine that can run, and every outbound call
\* returns (the HTTP clients have timeouts)
FairSpec ==
    /\ Spec
    /\ \A i \in 1..MaxEvents : WF_vars(UnitStep(i)) /\ WF_vars(AckStep(i))

(***************************************************************************)
(* Reference definitions for the parser claims, stated on positions of     *)
(* the text and independent of the splitting and collecting above.         *)
(***************************************************************************)
Returned(fn) == call.fn = fn /\ ret # NotReturned

\* whether sub occurs in s
Contains(s, sub) == Occurrences(s, sub) # {}

\* the k-th smallest element of a finite set of integers
RECURSIVE KthSmallest(_, _)
KthSmallest(S, k) == IF k = 1 THEN Min(S) ELSE KthSmallest(S \ {Min(S)}, k - 1)

\* the 1-based positions of the colons of h
ColonPositions(h) == {i \in 1..Len(h) : h[i] = ":"}

\* an optional sign followed by digits only
IsIntegerText(t) ==
    LET ds == IF t # <<>> /\ t[1] \in {"+", "-"} THEN SubSeq(t, 2, Len(t)) ELSE t
    IN  ds # <<>> /\ \A i \in 1..Len(ds) : ds[i] \in Digits

RECURSIVE Pow10(_)
Pow10(n) == IF n = 0 THEN 1 ELSE 10 * Pow10(n - 1)

RECURSIVE SumOver(_, _)
SumOver(S, f) ==
    IF S = {} THEN 0 ELSE LET x == CHOOSE x \in S : TRUE IN f[x] + SumOver(S \ {x}, f)

IntegerValue(t) ==
    LET neg == t[1] = "-"
        ds == IF t[1] \in {"+", "-"} THEN SubSeq(t, 2, Len(t)) ELSE t
        mag == SumOver(1..Len(ds),
                       [i \in 1..Len(ds) |-> DigitVal(ds[i]) * Pow10(Len(ds) - i)])
    IN  IF neg THEN 0 - mag ELSE mag

\* the header of a fragment: the text before its first "$$"
HeaderOf(b) == SubSeq(b, 1, Min(Occurrences(b, Delim)))

\* the line field of a header with two colons
LineFieldOf(h) ==
    TrimSpace(SubSeq(h, Min(ColonPositions(h)) + 1,
                     KthSmallest(ColonPositions(h), 2) - 1))

\* path:line:categoryTail $$content$$ : two "$$" that do not overlap, a
\* header with at least two colons, an integer between the first two colons
WellFormedFragment(b) ==
    /\ Occurrences(b, Delim) # {}
    /\ Min(Occurrences(b, Delim)) + 2 <= Max(Occurrences(b, Delim))
    /\ Cardinality(ColonPositions(HeaderOf(b))) >= 2
    /\ IsIntegerText(LineFieldOf(HeaderOf(b)))

\* the comment the reply protocol assigns to a well-formed fragment
ExpectedComment(b) ==
    LET h == HeaderOf(b)
        c1 == Min(ColonPositions(h))
        c2 == KthSmallest(ColonPositions(h), 2)
        first == Min(Occurrences(b, Delim))
        last == Max(Occurrences(b, Delim))
    IN  [kind |-> "comment",
         Path |-> TrimSpace(SubSeq(h, 1, c1 - 1)),
         Line |-> IntegerValue(LineFieldOf(h)),
         Side |-> "RIGHT",
         Body |-> TrimSpace(SubSeq(h, c2 + 1, Len(h))) \o <<"\n", "\n">>
                  \o TrimSpace(SubSeq(b, first + 3, last))]

\* the k-th fragment of a reply: from the end of the k-th PR_COMMENT: marker
\* to the start of the next one, or to the end of the reply
FragmentCount(text) == Cardinality(Occurrences(text, CommentMarker))
Fragment(text, k) ==
    LET marks == Occurrences(text, CommentMarker)
        from == KthSmallest(marks, k) + Len(CommentMarker)
        to == IF k < Cardinality(marks) THEN KthSmallest(marks, k + 1) ELSE Len(text)
    IN  SubSeq(text, from + 1, to)

\* the fragments of a reply that parse to a comment
ParsedFragments(text) ==
    {k \in 1..FragmentCount(text) : parsePRCommentBlock(Fragment(text, k)).kind = "comment"}

(***************************************************************************)
(* C1.  parseClaudeResponse is total: for every reply it returns a         *)
(* ReviewResult and never raises a failure.                                *)
(***************************************************************************)
C1_ParseIsTotal ==
    Returned("parseClaudeResponse") => ~ret.value.panicked

(***************************************************************************)
(* C2.  A well-formed fragment path:line:categoryTail $$content$$ yields   *)
(* exactly one comment: path the trimmed text before the first colon, line *)
(* the integer between the first two colons, side RIGHT, body the trimmed  *)
(* rest of the header (colons included), a blank line, and the trimmed     *)
(* text between the first and the last "$$".                               *)
(***************************************************************************)
C2_WellFormedFragmentYieldsComment ==
    (Returned("parsePRCommentBlock") /\ WellFormedFragment(call.block))
        => ret.value = ExpectedComment(call.block)

C2_Witness ==
    /\ Returned("parsePRCommentBlock")
    /\ WellFormedFragment(call.block)
    /\ ret.value.kind = "comment"
    /\ ret.value.Line = 45
    /\ Contains(ret.value.Body, <<":", " ", "y", ":", "\n", "\n">>)
    /\ Contains(ret.value.Body, Delim)

(***************************************************************************)
(* C3.  The comments of a returned ReviewResult are exactly the comments   *)
(* of the fragments that parse, in the order of their PR_COMMENT: markers: *)
(* a discarded fragment removes only its own comment, and comments on the  *)
(* same path and line are all kept.                                        *)
(***************************************************************************)
C3_CommentsAreParsedFragmentsInOrder ==
    (Returned("parseClaudeResponse") /\ ~ret.value.panicked)
        => LET good == ParsedFragments(call.text)
               cs == ret.value.Comments
           IN  /\ Len(cs) = Cardinality(good)
               /\ \A j \in 1..Len(cs) :
                    cs[j] = AsReviewComment(
                                parsePRCommentBlock(Fragment(call.text, KthSmallest(good, j))))

\* a discarded fragment between two fragments on the same path and line
C3_Witness ==
    /\ Returned("parseClaudeResponse")
    /\ ~ret.value.panicked
    /\ FragmentCount(call.text) = 3
    /\ ParsedFragments(call.text) = {1, 3}
    /\ Len(ret.value.Comments) = 2
    /\ ret.value.Comments[1].Path = ret.value.Comments[2].Path
    /\ ret.value.Comments[1].Line = ret.value.Comments[2].Line
    /\ ret.value.Comments[1].Body # ret.value.Comments[2].Body

(***************************************************************************)
(* C4.  Every comment of a returned ReviewResult has a line number >= 1.   *)
(***************************************************************************)
C4_LineNumbersArePositive ==
    (Returned("parseClaudeResponse") /\ ~ret.value.panicked)
        => \A j \in 1..Len(ret.value.Comments) : ret.value.Comments[j].Line >= 1

(***************************************************************************)
(* C5.  The summary is the branding header, the extracted SUMMARY text     *)
(* and, if and only if the extracted POEM text is non-empty, the           *)
(* separator with the poem heading and the poem; the reply                 *)
(* "SUMMARY: $$Hello$$" gives "Hello" after the header and no comments.    *)
(***************************************************************************)
HelloReply == <<"S", "U", "M", "M", "A", "R", "Y", ":", " ", "$", "$", "H", "e", "l", "l", "o", "$", "$">>

C6_ShouldReviewIffOpenedOrReady ==
    Returned("shouldTriggerReview")
        => (ret.value <=> (~call.draft /\ call.action \in {"opened", "ready_for_review"}))

C6_Witness ==
    /\ Returned("shouldTriggerReview")
    /\ call.action = "synchronize"
    /\ ~call.draft
    /\ ret.value = FALSE

(***************************************************************************)
(* C8.  checkPRSize gives exactly one verdict: skip if and only if         *)
(* files > 25 or additions > 800 or additions + deletions > 1200, with the *)
(* message of the first violated limit in the order files, additions,      *)
(* total changes.                                                          *)
(***************************************************************************)
C8_SkipIffHardLimitFirstWins ==
    Returned("checkPRSize")
        => LET f == call.files
               a == call.additions
               d == call.deletions
               v == ret.value
           IN  /\ ~v.ShouldReview <=> (f > 25 \/ a > 800 \/ a + d > 1200)
               /\ v.ShouldReview => v.SkipMessage = <<>>
               /\ ~v.ShouldReview => v.WarningMessage = <<>>
               /\ f > 25 => v.SkipMessage = FilesSkipMessage(f)
               /\ (f <= 25 /\ a > 800) => v.SkipMessage = AdditionsSkipMessage(a)
               /\ (f <= 25 /\ a <= 800 /\ a + d > 1200)
                    => v.SkipMessage = TotalSkipMessage(a + d, a, d)
               /\ (f = 26 /\ a = 10) =>
                    Contains(v.SkipMessage, <<"T", "h", "i", "s", " ", "P", "R", " ", "m", "o", "d", "i", "f", "i", "e", "s", " ", "*", "*", "2", "6", " ", "f", "i", "l", "e", "s", "*", "*">>)

\* several limits violated at once
C8_Witness ==
    /\ Returned("checkPRSize")
    /\ call.files > 25
    /\ call.additions > 800
    /\ call.additions + call.deletions > 1200
    /\ ret.value.SkipMessage = FilesSkipMessage(call.files)
    /\ ret.value.SkipMessage # AdditionsSkipMessage(call.additions)

(***************************************************************************)
(* C9.  Without a hard limit the warning text is non-empty if and only if  *)
(* files > 20 or additions > 400; each warning line is present exactly     *)
(* when its own threshold is exceeded, and the files line precedes the     *)
(* additions line.                                                         *)
(***************************************************************************)
C9_WarningsIndependentFilesFirst ==
    (Returned("checkPRSize") /\ ret.value.ShouldReview)
        => LET f == call.files
               a == call.additions
               w == ret.value.WarningMessage
           IN  /\ w # <<>> <=> (f > 20 \/ a > 400)
               /\ Contains(w, FilesWarning(f)) <=> f > 20
               /\ Contains(w, AdditionsWarning(a)) <=> a > 400
               /\ (f > 20 /\ a > 400)
                    => Index(w, FilesWarning(f)) < Index(w, AdditionsWarning(a))
               /\ (f = 10 /\ a = 450) => Contains(w, <<"4", "5", "0", " ", "l", "i", "n", "e", "s", " ", "a", "d", "d", "e", "d">>)

C9_Witness ==
    /\ Returned("checkPRSize")
    /\ ret.value.ShouldReview
    /\ call.files > 20
    /\ call.additions > 400
    /\ Contains(ret.value.WarningMessage, FilesWarning(call.files))
    /\ Contains(ret.value.WarningMessage, AdditionsWarning(call.additions))

(***************************************************************************)
(* C7.  An event the filter rejects (a draft, or an action other than      *)
(* opened and ready_for_review) is answered 200 and starts no goroutine:   *)
(* no lookup, fetch, model call or post is attributable to it.             *)
(***************************************************************************)
Rejected(e) ==
    e.valid /\ (e.draft \/ e.action \notin {"opened", "ready_for_review"})

C7_RejectedEventsDispatchNothing ==
    \A i \in 1..Len(events) :
        Rejected(events[i])
            => /\ events[i].status = 200
               /\ units[i] = NoUnit
               /\ \A j \in 1..Len(posted) : posted[j].event # i

\* a rejected event beside an event whose review was posted
C7_Witness ==
    \E i, k \in 1..Len(events) :
        /\ Rejected(events[i])
        /\ events[i].action = "opened"
        /\ units[k] # NoUnit
        /\ units[k].pc = "done"
        /\ \E j \in 1..Len(posted) : posted[j] = [kind |-> "review", event |-> k]

(***************************************************************************)
(* C10.  On a skip verdict the goroutine makes exactly one outbound call,  *)
(* the plain comment with the skip message, and ends: no diff fetch, no    *)
(* model call, no review.  A plain comment is posted on no other path, so  *)
(* no goroutine posts both a comment and a review.                         *)
(***************************************************************************)
HardLimitHit(pr) ==
    pr.files > 25 \/ pr.additions > 800 \/ pr.additions + pr.deletions > 1200

PostsOf(i) == {j \in 1..Len(posted) : posted[j].event = i}

C10_SkipPostsOneCommentAndEnds ==
    \A i \in 1..Len(units) :
        units[i] # NoUnit
            => LET u == units[i]
                   n == Len(u.calls)
               IN  /\ HardLimitHit(u.pr) =>
                        /\ u.pc \in {"start", "postComment", "done"}
                        /\ n <= 1
                        /\ u.pc = "done" <=> n = 1
                        /\ n = 1 =>
                             /\ u.calls[1].op = "PostComment"
                             /\ u.calls[1].body = SizeCheckOf(u.pr).SkipMessage
                             /\ u.calls[1].body # <<>>
                             /\ Cardinality(PostsOf(i)) = IF u.calls[1].ok THEN 1 ELSE 0
                   /\ ~HardLimitHit(u.pr) =>
                        \A k \in 1..n : u.calls[k].op # "PostComment"
                   /\ Cardinality(PostsOf(i)) <= 1
                   /\ \A j \in PostsOf(i) :
                        posted[j].kind = "comment" <=> HardLimitHit(u.pr)

\* a skip comment posted, beside a review posted for another event
C10_Witness ==
    \E i, k \in 1..Len(units) :
        /\ units[i] # NoUnit
        /\ HardLimitHit(units[i].pr)
        /\ units[i].pc = "done"
        /\ units[i].calls[1].ok
        /\ \E j \in 1..Len(posted) : posted[j] = [kind |-> "comment", event |-> i]
        /\ \E j \in 1..Len(posted) : posted[j] = [kind |-> "review", event |-> k]

(***************************************************************************)
(* The resolver.                                                           *)
(***************************************************************************)
\* positions of the organizations named owner, and the matched one
OrgsNamed(orgs, owner) == {o \in 1..Len(orgs) : orgs[o].Name = owner}
MatchedOrg(orgs, owner) == orgs[Min(OrgsNamed(orgs, owner))]

\* positions in an organization of the entries named n, and of the wildcards
EntriesNamed(org, n) ==
    {k \in 1..Len(org.Repositories) : org.Repositories[k].Name = n}
WildcardEntries(org) ==
    {k \in 1..Len(org.Repositories) : org.Repositories[k].Name \in {"*", "default"}}

\* C11: when the matched organization (the first one named owner) holds an
\* entry named repoName, resolve returns that entry (the first so named),
\* wherever the wildcard entries stand; and a wildcard entry that is not
\* itself named repoName is returned only when the matched organization
\* holds no entry named repoName.
C11_ExactEntryBeatsWildcard ==
    Returned("GetRepositoryConfig") =>
        LET named == OrgsNamed(call.orgs, call.owner)
            m == MatchedOrg(call.orgs, call.owner)
        IN  /\ (named # {} /\ EntriesNamed(m, call.repoName) # {}) =>
                   LET e == m.Repositories[Min(EntriesNamed(m, call.repoName))]
                   IN  /\ ret.value.found
                       /\ ret.value.Name = call.repoName
                       /\ ret.value.Precision = e.Precision
                       /\ ret.value.CustomPrompt = e.CustomPrompt
            /\ (ret.value.found /\ ret.value.Name # call.repoName) =>
                   /\ ret.value.Name \in {"*", "default"}
                   /\ named # {}
                   /\ EntriesNamed(m, call.repoName) = {}

\* the exact entry stands after a wildcard entry of the matched organization
\* and is the one returned
C11_Witness ==
    /\ Returned("GetRepositoryConfig")
    /\ call.repoName = "svc"
    /\ OrgsNamed(call.orgs, call.owner) # {}
    /\ LET m == MatchedOrg(call.orgs, call.owner)
       IN  /\ EntriesNamed(m, "svc") # {}
           /\ WildcardEntries(m) # {}
           /\ Min(WildcardEntries(m)) < Min(EntriesNamed(m, "svc"))
    /\ ret.value.found
    /\ ret.value.Name = "svc"

\* C12: resolve signals NotFound when no organization is named owner, and
\* when the matched organization (the first one named owner) holds neither an
\* entry named repoName nor a wildcard entry, also when a later organization
\* has the same name.
C12_NotFoundDecidedInMatchedOrg ==
    Returned("GetRepositoryConfig") =>
        LET named == OrgsNamed(call.orgs, call.owner)
            m == MatchedOrg(call.orgs, call.owner)
        IN  (named = {} \/ (EntriesNamed(m, call.repoName) = {} /\ WildcardEntries(m) = {}))
                => ret.value = NilConfig

(***************************************************************************)
(* Repositories without configuration.                                     *)
(***************************************************************************)
\* unit i works on a pull request for which the resolver returns nil
Unconfigured(i) ==
    /\ units[i] # NoUnit
    /\ GetRepositoryConfig(LoadedConfig, units[i].pr.owner, units[i].pr.repo) = NilConfig

CallsOf(i, op) == {j \in 1..Len(units[i].calls) : units[i].calls[j].op = op}

C14_UnconfiguredNeverPosted ==
    \A i \in 1..Len(units) : Unconfigured(i) => PostsOf(i) = {}

(***************************************************************************)
(* Failures of the outbound calls.                                         *)
(***************************************************************************)
PostingCalls(i) == CallsOf(i, "PostComment") \cup CallsOf(i, "PostReview")

\* C15: after a failed model call the reply is the fixed placeholder, the
\* unit goes on to post: it stands before PostReview or has made that call,
\* and the review it posts has no line comments.
C15_FailedModelCallStillPosts ==
    \A i \in 1..Len(units) :
        units[i] # NoUnit =>
            \A j \in CallsOf(i, "Claude") :
                ~units[i].calls[j].ok =>
                    /\ units[i].calls[j].reply = ErrorPlaceholder
                    /\ units[i].pc \in {"postReview", "done"}
                    /\ units[i].pc = "done" => CallsOf(i, "PostReview") # {}
                    /\ units[i].review.Comments = <<>>
                    /\ units[i].review.Summary # <<>>

\* a unit whose model call failed has posted its review
C15_Witness ==
    \E i \in 1..Len(units) :
        /\ units[i] # NoUnit
        /\ units[i].pc = "done"
        /\ \E j \in CallsOf(i, "Claude") : ~units[i].calls[j].ok
        /\ \E j \in CallsOf(i, "PostReview") : units[i].calls[j].ok
        /\ \E k \in PostsOf(i) : posted[k].kind = "review"

\* C16: a unit makes at most one posting call; when that call fails the unit
\* is over, nothing of it is recorded as posted, and the webhook caller's
\* status is the acknowledgement or still unwritten, never an error.
C16_FailedPostEndsUnitOnce ==
    \A i \in 1..Len(units) :
        units[i] # NoUnit =>
            /\ Cardinality(PostingCalls(i)) <= 1
            /\ \A j \in PostingCalls(i) :
                  ~units[i].calls[j].ok =>
                      /\ units[i].pc = "done"
                      /\ j = Len(units[i].calls)
                      /\ PostsOf(i) = {}
                      /\ events[i].status \in {0, 200}

\* one unit's review and another unit's skip comment were both rejected
C16_Witness ==
    /\ Len(units) = 2
    /\ \A i \in {1, 2} : units[i] # NoUnit /\ units[i].pc = "done"
    /\ \E j \in CallsOf(1, "PostReview") : ~units[1].calls[j].ok
    /\ \E j \in CallsOf(2, "PostComment") : ~units[2].calls[j].ok
    /\ posted = <<>>
    /\ \A i \in {1, 2} : events[i].status = 200

(***************************************************************************)
(* Dispatch, the assembled review and the acknowledgement.                 *)
(***************************************************************************)
Qualifies(e) == e.valid /\ e.action \in {"opened", "ready_for_review"} /\ ~e.draft

\* the next step of unit i can be taken
NextStepEnabled(i) ==
    CASE units[i].pc = "start" -> ENABLED Start(i)
      [] units[i].pc = "postComment" -> ENABLED PostComment(i, TRUE)
      [] units[i].pc = "getDiff" -> ENABLED GetPRDiff(i, TRUE)
      [] units[i].pc = "generate" -> ENABLED GenerateReview(i, [kind |-> "empty"])
      [] units[i].pc = "postReview" -> ENABLED PostReview(i, TRUE)
      [] OTHER -> TRUE

\* C17: every qualifying event has its own unit of work, whatever events came
\* before it (also for the same pull request); while the process runs, a
\* unit that is not over can take its next step whatever the other units are
\* doing, and a post in the record belongs to the one unit that made it.
C17_EveryQualifyingEventHasItsUnit ==
    /\ Len(units) = Len(events)
    /\ \A i \in 1..Len(events) :
          Qualifies(events[i]) =>
              /\ units[i] # NoUnit
              /\ ~crashed => NextStepEnabled(i)
    /\ \A k \in 1..Len(posted) :
          /\ units[posted[k].event] # NoUnit
          /\ units[posted[k].event].pc = "done"
          /\ Cardinality(PostsOf(posted[k].event)) = 1

\* two events for the same pull request: both units have posted, the second
\* event's post first
C17_Witness ==
    /\ Len(events) = 2
    /\ Qualifies(events[1]) /\ Qualifies(events[2])
    /\ units[1].pr = units[2].pr
    /\ Len(posted) = 2
    /\ posted[1].event = 2
    /\ posted[2].event = 1

\* the parse of every text the model call can return, and the size warning
\* of every pull request of the payloads
ParsedReplies ==
    {<<ClaudeText(o), parseClaudeResponse(ClaudeText(o))>> : o \in ClaudeOutcomes}
ParsedReply(reply) == (CHOOSE p \in ParsedReplies : p[1] = reply)[2]
SizeWarningsOfPRs ==
    {<<p.pr, SizeCheckOf(p.pr).WarningMessage>> : p \in Payloads}
SizeWarningOf(pr) == (CHOOSE p \in SizeWarningsOfPRs : p[1] = pr)[2]

\* C18: the review a unit posts has the parsed comments unchanged, and as
\* summary the size warning followed by the parsed summary when there is a
\* warning, the parsed summary alone when there is none.
C18_WarningPrependedCommentsKept ==
    \A i \in 1..Len(units) :
        (units[i] # NoUnit /\ units[i].pc \in {"postReview", "done"}) =>
            \A j \in CallsOf(i, "Claude") :
                LET parsed == ParsedReply(units[i].calls[j].reply)
                    sizeWarning == SizeWarningOf(units[i].pr)
                IN  /\ units[i].review.Comments = parsed.Comments
                    /\ sizeWarning # <<>> =>
                          /\ SubSeq(units[i].review.Summary, 1, Len(sizeWarning)) = sizeWarning
                          /\ SubSeq(units[i].review.Summary, Len(sizeWarning) + 1,
                                    Len(units[i].review.Summary)) = parsed.Summary
                    /\ sizeWarning = <<>> => units[i].review.Summary = parsed.Summary

\* a posted review with a size warning and a line comment
C18_Witness ==
    \E i \in 1..Len(units) :
        /\ units[i] # NoUnit
        /\ units[i].pc = "done"
        /\ SizeWarningOf(units[i].pr) # <<>>
        /\ units[i].review.Comments # <<>>
        /\ \E j \in CallsOf(i, "PostReview") : units[i].calls[j].ok

\* C20: whenever a unit of work has taken its first step, the 200 of its
\* event has been written.
C20_AckBeforeProcessing ==
    \A i \in 1..Len(units) :
        (units[i] # NoUnit /\ units[i].pc # "start") => events[i].status = 200

(***************************************************************************)
(* The prompt.                                                             *)
(***************************************************************************)
Placeholders == {TitleToken, BodyToken, PrecisionToken, DiffToken, CustomPromptToken}

\* C19: the prompt built from a template with the five placeholders holds
\* none of the placeholder tokens, whatever the title, body, precision
\* guidance, diff and custom prompt are.
C19_NoPlaceholderLeft ==
    Returned("substitutePromptVariables") =>
        \A token \in Placeholders : ~Contains(ret.value, token)

(***************************************************************************)
(* Sections and fragments of the reply.                                    *)
(***************************************************************************)
\* 0-based positions of the opening "$$" of a section (the first one at or
\* after the first marker) and of its closing "$$" (the first one that
\* starts after the opening one has ended); -1 when there is none
MarkerAt(text, marker) ==
    IF Occurrences(text, marker) = {} THEN -1 ELSE Min(Occurrences(text, marker))
OpeningDelim(text, marker) ==
    LET from == {p \in Occurrences(text, Delim) : p >= MarkerAt(text, marker)}
    IN  IF MarkerAt(text, marker) = -1 \/ from = {} THEN -1 ELSE Min(from)
ClosingDelim(text, marker) ==
    LET from == {p \in Occurrences(text, Delim) : p >= OpeningDelim(text, marker) + 2}
    IN  IF OpeningDelim(text, marker) = -1 \/ from = {} THEN -1 ELSE Min(from)

\* C21: extractSection returns the trimmed text between the first "$$" at
\* or after the first marker and the next "$$" after it, and the empty text
\* when the marker, the opening "$$" or the closing "$$" is absent.
C21_SectionBetweenFirstDelimiterPair ==
    Returned("extractSection") =>
        LET open == OpeningDelim(call.text, call.sectionHeader)
            close == ClosingDelim(call.text, call.sectionHeader)
        IN  IF close = -1
            THEN ret.value = <<>>
            ELSE ret.value = TrimSpace(SubSeq(call.text, open + 3, close))

\* a section followed by further "$$" in the text: the extraction ends at
\* the first closing delimiter and returns a non-empty, trimmed text
C21_Witness ==
    /\ Returned("extractSection")
    /\ ret.value # <<>>
    /\ LET open == OpeningDelim(call.text, call.sectionHeader)
           close == ClosingDelim(call.text, call.sectionHeader)
       IN  /\ close # -1
           /\ \E p \in Occurrences(call.text, Delim) : p > close + 1
           /\ \E p \in Occurrences(call.text, Delim) : p < open
           /\ Len(ret.value) < close - open - 2

\* a fragment holds two "$$" delimiters: two occurrences that do not overlap
TwoDelims(b) ==
    \E p, q \in Occurrences(b, Delim) : q >= p + 2

\* the three reasons for which a fragment yields no comment
Discarded(b) ==
    \/ ~TwoDelims(b)
    \/ Cardinality(ColonPositions(HeaderOf(b))) < 2
    \/ ~IsIntegerText(LineFieldOf(HeaderOf(b)))

\* C22: a fragment yields no comment exactly when it has fewer than two
\* "$$", or its header has fewer than three colon-separated parts, or its
\* line field is no integer; in a result every other fragment has exactly
\* one comment and the text before the first marker has none.
C22_NoCommentExactlyWhenDiscarded ==
    /\ Returned("parsePRCommentBlock") =>
          (ret.value.kind = "comment" <=> ~Discarded(call.block))
    /\ (Returned("parseClaudeResponse") /\ ~ret.value.panicked) =>
          Len(ret.value.Comments) =
              Cardinality({k \in 1..FragmentCount(call.text) :
                              ~Discarded(Fragment(call.text, k))})

\* a fragment with two delimiters and three header parts is dropped for
\* its line field alone
C22_Witness ==
    /\ Returned("parsePRCommentBlock")
    /\ ret.value = NilComment
    /\ TwoDelims(call.block)
    /\ Cardinality(ColonPositions(HeaderOf(call.block))) >= 2
    /\ ~IsIntegerText(LineFieldOf(HeaderOf(call.block)))

(***************************************************************************)
(* The end of a unit of work.                                              *)
(***************************************************************************)
\* C23: after a failed diff fetch the unit is over: the fetch is its only
\* call, the model is not called, and nothing is posted for the event.
C23_FailedDiffEndsUnit ==
    \A i \in 1..Len(units) :
        units[i] # NoUnit =>
            \A j \in CallsOf(i, "GetPRDiff") :
                ~units[i].calls[j].ok =>
                    /\ units[i].pc = "done"
                    /\ Len(units[i].calls) = 1
                    /\ CallsOf(i, "Claude") = {}
                    /\ PostingCalls(i) = {}
                    /\ PostsOf(i) = {}
                    /\ units[i].review = NoReview

\* a unit that ended on a failed diff fetch beside one that posted its review
C23_Witness ==
    \E i, k \in 1..Len(units) :
        /\ units[i] # NoUnit /\ units[k] # NoUnit
        /\ units[i].pc = "done"
        /\ \E j \in CallsOf(i, "GetPRDiff") : ~units[i].calls[j].ok
        /\ PostsOf(k) # {}
        /\ events[i].status = 200

(***************************************************************************)
(* The sections of the summary.                                            *)
(***************************************************************************)
\* the text before the first PR_COMMENT: marker
PreambleOf(text) ==
    IF Occurrences(text, CommentMarker) = {} THEN text
    ELSE SubSeq(text, 1, Min(Occurrences(text, CommentMarker)))

\* the section of a marker: what extractSection finds between the first
\* marker of the preamble and the next SUMMARY: or POEM: marker (or the end
\* of the preamble)
OwnSection(text, marker) ==
    LET pre == PreambleOf(text)
        m == MarkerAt(pre, marker)
        nexts == {p \in Occurrences(pre, SummaryMarker) \cup Occurrences(pre, PoemMarker) :
                     p > m}
        end == IF nexts = {} THEN Len(pre) ELSE Min(nexts)
    IN  IF m = -1 THEN <<>> ELSE extractSection(SubSeq(pre, m + 1, end), marker)

\* C24: the SUMMARY and POEM texts of the summary come from their own
\* sections before the first PR_COMMENT: marker; a marker without its own
\* "$$" pair gives an empty section, never the body of a fragment or the
\* content of the other section.
C24_SectionsStayInsideTheirSection ==
    (Returned("parseClaudeResponse") /\ ~ret.value.panicked) =>
        LET summary == OwnSection(call.text, SummaryMarker)
            poem == OwnSection(call.text, PoemMarker)
        IN  ret.value.Summary =
                BrandingHeader \o summary
                \o (IF poem # <<>> THEN PoemSeparator \o poem ELSE <<>>)

Dispatched(i) == i \in 1..Len(units) /\ units[i] # NoUnit

\* the terminal outcomes of a unit that is over
SkipCommentPosted(i) ==
    \E j \in CallsOf(i, "PostComment") : units[i].calls[j].ok
ReviewPosted(i) ==
    \E j \in CallsOf(i, "PostReview") : units[i].calls[j].ok
DiffFetchFailed(i) ==
    \E j \in CallsOf(i, "GetPRDiff") : ~units[i].calls[j].ok
PostingFailed(i) ==
    \E j \in PostingCalls(i) : ~units[i].calls[j].ok

Ended(i) ==
    /\ Dispatched(i)
    /\ units[i].pc = "done"
    /\ Cardinality({o \in {"skip", "review", "diff", "post"} :
           \/ o = "skip" /\ SkipCommentPosted(i)
           \/ o = "review" /\ ReviewPosted(i)
           \/ o = "diff" /\ DiffFetchFailed(i)
           \/ o = "post" /\ PostingFailed(i)}) = 1

\* C25: every dispatched unit of work eventually ends in exactly one of the
\* outcomes skip comment posted, review posted, diff fetch failed, posting
\* failed, and never makes more than one diff fetch or one model call.
C25_EveryUnitEndsInOneOutcome ==
    /\ \A i \in 1..MaxEvents : Dispatched(i) ~> Ended(i)
    /\ [](\A i \in 1..Len(units) :
             units[i] # NoUnit =>
                 /\ Cardinality(CallsOf(i, "GetPRDiff")) <= 1
                 /\ Cardinality(CallsOf(i, "Claude")) <= 1)

====
